---- MODULE Spec2Model ----
(***************************************************************************)
(* Model of the knowledge base and inference engine of minesweeper.py:     *)
(* class Sentence, class MinesweeperAI and the part of class Minesweeper   *)
(* (the board) that tells the driver the count of a revealed cell.         *)
(***************************************************************************)
EXTENDS Integers, Sequences, FiniteSets, TLC

\* ---------------------------------------------------------------- bounds
Height == 2
Width == 3
MaxMines == 4
MaxCalls == 3
MaxSide == 4

\* ---------------------------------------------------------------- state
VARIABLES
    layout,      \* Minesweeper.mines: the cells that hold a mine
    moves_made,  \* MinesweeperAI.moves_made
    safes,       \* MinesweeperAI.safes
    mines,       \* MinesweeperAI.mines
    knowledge,   \* MinesweeperAI.knowledge: a list of sentences
    op,          \* the call that returned last, with its arguments
    ret,         \* what the last make_safe_move / make_random_move returned
    calls        \* number of calls made so far

vars == <<layout, moves_made, safes, mines, knowledge, op, ret, calls>>

\* Python's None, as a value comparable with a cell
None == <<>>

\* the cells (i, j) of the board, 0-indexed
Board == (0 .. Height - 1) \X (0 .. Width - 1)

\* ------------------------------------------------------------- the board
\* Minesweeper.nearby_mines: mines within one row and column of the cell,
\* the cell itself excluded, out-of-bounds positions ignored
nearby_mines(board, cell) ==
    Cardinality({ p \in (cell[1] - 1 .. cell[1] + 1) \X (cell[2] - 1 .. cell[2] + 1) :
                    /\ p # cell
                    /\ 0 <= p[1] /\ p[1] < Height /\ 0 <= p[2] /\ p[2] < Width
                    /\ p \in board })

\* -------------------------------------------------------------- Sentence
Sentence(cells, count) == [cells |-> cells, count |-> count]

known_mines(s) == IF Cardinality(s.cells) = s.count THEN s.cells ELSE {}

known_safes(s) == IF s.count = 0 THEN s.cells ELSE {}

\* mark_mine without the membership test
Sentence_mark_mine_unguarded(s, cell) ==
    [cells |-> s.cells \ {cell}, count |-> s.count - 1]

Sentence_mark_mine(s, cell) ==
    IF cell \in s.cells
    THEN [cells |-> s.cells \ {cell}, count |-> s.count - 1]
    ELSE s

Sentence_mark_safe(s, cell) ==
    IF cell \in s.cells
    THEN [s EXCEPT !.cells = s.cells \ {cell}]
    ELSE s

\* --------------------------------------------------------- MinesweeperAI
\* The agent's fields as one value, so that the methods compose.
AI(mm, sf, mn, kn) == [moves_made |-> mm, safes |-> sf, mines |-> mn, knowledge |-> kn]

mark_mine(ai, cell) ==
    [ai EXCEPT !.mines = ai.mines \cup {cell},
               !.knowledge = [i \in 1 .. Len(ai.knowledge) |->
                                Sentence_mark_mine(ai.knowledge[i], cell)]]

\* mark_safe that updates the sentences and forgets self.safes
mark_safe_sentences_only(ai, cell) ==
    [ai EXCEPT !.knowledge = [i \in 1 .. Len(ai.knowledge) |->
                                Sentence_mark_safe(ai.knowledge[i], cell)]]

\* mark_safe that also takes the cell out of mines
mark_safe_clearing_mine(ai, cell) ==
    [ai EXCEPT !.safes = ai.safes \cup {cell},
               !.mines = ai.mines \ {cell},
               !.knowledge = [i \in 1 .. Len(ai.knowledge) |->
                                Sentence_mark_safe(ai.knowledge[i], cell)]]

mark_safe(ai, cell) ==
    [ai EXCEPT !.safes = ai.safes \cup {cell},
               !.knowledge = [i \in 1 .. Len(ai.knowledge) |->
                                Sentence_mark_safe(ai.knowledge[i], cell)]]

\* get_neighbours without the test for the first row
get_neighbours_above_unclamped(height, width, cell) ==
    LET neighbouring_rows ==
            {cell[1], cell[1] - 1}
                \cup (IF cell[1] < height - 1 THEN {cell[1] + 1} ELSE {})
        neighbouring_cols ==
            {cell[2]}
                \cup (IF cell[2] > 0 THEN {cell[2] - 1} ELSE {})
                \cup (IF cell[2] < width - 1 THEN {cell[2] + 1} ELSE {})
    IN  (neighbouring_rows \X neighbouring_cols) \ {cell}

\* get_neighbours reads self.height and self.width: here as parameters
get_neighbours_on(height, width, cell) ==
    LET current_row == cell[1]
        current_col == cell[2]
        neighbouring_rows ==
            {current_row}
                \cup (IF current_row > 0 THEN {current_row - 1} ELSE {})
                \cup (IF current_row < height - 1 THEN {current_row + 1} ELSE {})
        neighbouring_cols ==
            {current_col}
                \cup (IF current_col > 0 THEN {current_col - 1} ELSE {})
                \cup (IF current_col < width - 1 THEN {current_col + 1} ELSE {})
    IN  (neighbouring_rows \X neighbouring_cols) \ {cell}

\* get_neighbours of the agent, whose board is Height x Width
get_neighbours(cell) == get_neighbours_on(Height, Width, cell)

\* a loop that returns after its first cell
mark_safe_first_only(ai, cells) ==
    IF cells = {} THEN ai ELSE mark_safe(ai, CHOOSE x \in cells : TRUE)

mark_mine_first_only(ai, cells) ==
    IF cells = {} THEN ai ELSE mark_mine(ai, CHOOSE x \in cells : TRUE)

\* "for c in cells: self.mark_safe(c)": the marks commute, so any order
RECURSIVE mark_safe_each(_, _)
mark_safe_each(ai, cells) ==
    IF cells = {} THEN ai
    ELSE LET c == CHOOSE x \in cells : TRUE
         IN  mark_safe_each(mark_safe(ai, c), cells \ {c})

RECURSIVE mark_mine_each(_, _)
mark_mine_each(ai, cells) ==
    IF cells = {} THEN ai
    ELSE LET c == CHOOSE x \in cells : TRUE
         IN  mark_mine_each(mark_mine(ai, c), cells \ {c})

\* s in list, by Sentence.__eq__ (cells and count both equal)
InList(s, list) == \E i \in 1 .. Len(list) : list[i] = s

\* itertools.combinations(pool, 2): the index pairs i < j in lexicographic
\* order, as the sequence the loop walks through
RECURSIVE PairsFrom(_, _, _)
PairsFrom(i, j, n) ==
    IF i >= n THEN <<>>
    ELSE IF j > n THEN PairsFrom(i + 1, i + 2, n)
    ELSE <<(<<i, j>>)>> \o PairsFrom(i, j + 1, n)

combinations2(n) == PairsFrom(1, 2, n)

\* the body of the loop of make_inferences for one pair of the pool
infer_pair(ai, sentence_one, sentence_two) ==
    IF sentence_one = sentence_two \/ sentence_one.count < sentence_two.count
    THEN ai
    ELSE LET intersection == sentence_one.cells \cap sentence_two.cells
             count == sentence_one.count - sentence_two.count
             sentence == Sentence(intersection, count)
         IN  IF intersection # {} /\ ~InList(sentence, ai.knowledge)
             THEN [ai EXCEPT !.knowledge = Append(ai.knowledge, sentence),
                             !.safes = ai.safes \cup known_safes(sentence),
                             !.mines = ai.mines \cup known_mines(sentence)]
             ELSE ai

\* make_inferences: combinations() snapshots the list when the loop starts
\* (pool); sentences appended during the loop are not paired in this call
RECURSIVE infer_loop(_, _, _, _)
infer_loop(ai, pool, pairs, k) ==
    IF k > Len(pairs) THEN ai
    ELSE infer_loop(infer_pair(ai, pool[pairs[k][1]], pool[pairs[k][2]]),
                    pool, pairs, k + 1)

make_inferences(ai) ==
    infer_loop(ai, ai.knowledge, combinations2(Len(ai.knowledge)), 1)

useless_sentence == Sentence({}, 0)

\* list.remove(x): drops the first element equal to x
list_remove(list, x) ==
    LET i == CHOOSE k \in 1 .. Len(list) :
                /\ list[k] = x
                /\ \A m \in 1 .. k - 1 : list[m] # x
    IN  SubSeq(list, 1, i - 1) \o SubSeq(list, i + 1, Len(list))

\* "for sentence in self.knowledge: if sentence == useless_sentence:
\*  self.knowledge.remove(sentence)": the list iterator keeps an index i
\* into the list that is being shortened under it
RECURSIVE clean_up(_, _)
clean_up(list, i) ==
    IF i > Len(list) THEN list
    ELSE IF list[i] = useless_sentence
         THEN clean_up(list_remove(list, useless_sentence), i + 1)
         ELSE clean_up(list, i + 1)

\* a sweep that resolves the safe cells only
sweep_sentence_safes_only(s, sf, mn) ==
    [cells |-> s.cells \ sf, count |-> s.count]

\* the last loop of add_knowledge for one sentence: every cell of the
\* sentence that is in safes is removed; a cell in mines that is still in
\* the sentence (so not in safes) is removed and counted off
sweep_sentence(s, sf, mn) ==
    [cells |-> s.cells \ (sf \cup mn),
     count |-> s.count - Cardinality(s.cells \cap (mn \ sf))]

sweep(ai) ==
    [ai EXCEPT !.knowledge = [i \in 1 .. Len(ai.knowledge) |->
                                sweep_sentence(ai.knowledge[i], ai.safes, ai.mines)]]

\* add_knowledge up to and including the clean-up of useless sentences
\* (lines 265-305), before the last loop
add_knowledge_cleaned(ai, cell, count) ==
    LET a1 == mark_safe([ai EXCEPT !.moves_made = ai.moves_made \cup {cell}], cell)
        neighbouring_cells == get_neighbours(cell)
        a2 == [a1 EXCEPT !.knowledge = Append(a1.knowledge,
                                              Sentence(neighbouring_cells, count))]
        a3 == IF count = 0 THEN mark_safe_each(a2, neighbouring_cells) ELSE a2
        a4 == IF Cardinality(neighbouring_cells) = count
              THEN mark_mine_each(a3, neighbouring_cells) ELSE a3
        a5 == make_inferences(a4)
    IN  [a5 EXCEPT !.knowledge = clean_up(a5.knowledge, 1)]

add_knowledge(ai, cell, count) == sweep(add_knowledge_cleaned(ai, cell, count))

\* the candidates without the known mines taken out
safe_moves_keeping_mines(ai) == ai.safes \ ai.moves_made

\* safes - moves_made - mines, the set make_safe_move pops from
safe_moves(ai) == (ai.safes \ ai.moves_made) \ ai.mines

\* the cells make_random_move walks through, in its order:
\* range(0, height - 1) x range(0, width - 1)
random_candidates(ai) ==
    { p \in (0 .. Height - 2) \X (0 .. Width - 2) :
        p \notin ai.moves_made /\ p \notin ai.mines }

make_random_move(ai) ==
    IF random_candidates(ai) = {} THEN None
    ELSE CHOOSE p \in random_candidates(ai) :
            \A q \in random_candidates(ai) :
                p[1] < q[1] \/ (p[1] = q[1] /\ p[2] <= q[2])

\* ------------------------------------------------------------ the system
Self == AI(moves_made, safes, mines, knowledge)

Store(ai) ==
    /\ moves_made' = ai.moves_made
    /\ safes' = ai.safes
    /\ mines' = ai.mines
    /\ knowledge' = ai.knowledge

\* Minesweeper.__init__ places the mines; MinesweeperAI.__init__ starts empty
Init ==
    /\ layout \in { m \in SUBSET Board : Cardinality(m) <= MaxMines }
    /\ moves_made = {}
    /\ safes = {}
    /\ mines = {}
    /\ knowledge = <<>>
    /\ op = [name |-> "init", cell |-> None, count |-> 0]
    /\ ret = None
    /\ calls = 0

\* the driver reveals a cell that is not a mine and was not revealed before,
\* and reports the board's count for it
Observe(cell) ==
    /\ cell \notin layout
    /\ cell \notin moves_made
    /\ Store(add_knowledge(Self, cell, nearby_mines(layout, cell)))
    /\ op' = [name |-> "add_knowledge", cell |-> cell,
              count |-> nearby_mines(layout, cell)]
    /\ ret' = None
    /\ calls' = calls
    /\ UNCHANGED layout

\* make_safe_move popping the cell out of self.safes itself
MakeSafeMove_popping_safes ==
    /\ \/ \E c \in safe_moves(Self) : ret' = c /\ safes' = safes \ {c}
       \/ /\ safe_moves(Self) = {}
          /\ ret' = None
          /\ safes' = safes
    /\ op' = [name |-> "make_safe_move", cell |-> None, count |-> 0]
    /\ UNCHANGED <<layout, moves_made, mines, knowledge, calls>>

MakeSafeMove ==
    /\ \/ /\ safe_moves(Self) # {}
          /\ ret' \in safe_moves(Self)
       \/ /\ safe_moves(Self) = {}
          /\ ret' = None
    /\ op' = [name |-> "make_safe_move", cell |-> None, count |-> 0]
    /\ UNCHANGED <<layout, moves_made, safes, mines, knowledge, calls>>

MakeRandomMove ==
    /\ ret' = make_random_move(Self)
    /\ op' = [name |-> "make_random_move", cell |-> None, count |-> 0]
    /\ UNCHANGED <<layout, moves_made, safes, mines, knowledge, calls>>

Next ==
    \/ \E cell \in Board : Observe(cell)
    \/ MakeSafeMove
    \/ MakeRandomMove

Spec == Init /\ [][Next]_vars


\* ------------------------------------------- the agent called directly
\* A caller that is not bound to a board: add_knowledge with any cell of
\* the board and any count, in range or one off either end, and
\* make_inferences called on its own.
CountsFor(cell) == -1 .. Cardinality(get_neighbours(cell)) + 1

InitAPI ==
    /\ layout = {}
    /\ moves_made = {}
    /\ safes = {}
    /\ mines = {}
    /\ knowledge = <<>>
    /\ op = [name |-> "init", cell |-> None, count |-> 0]
    /\ ret = None
    /\ calls = 0

AddKnowledge(cell, count) ==
    /\ calls < MaxCalls
    /\ Store(add_knowledge(Self, cell, count))
    /\ op' = [name |-> "add_knowledge", cell |-> cell, count |-> count]
    /\ ret' = None
    /\ calls' = calls + 1
    /\ UNCHANGED layout

MakeInferences ==
    /\ calls < MaxCalls
    /\ Store(make_inferences(Self))
    /\ op' = [name |-> "make_inferences", cell |-> None, count |-> 0]
    /\ ret' = None
    /\ calls' = calls + 1
    /\ UNCHANGED layout

NextAPI ==
    \/ \E cell \in Board : \E count \in CountsFor(cell) : AddKnowledge(cell, count)
    \/ MakeInferences

SpecAPI == InitAPI /\ [][NextAPI]_vars

\* ------------------------------- truthful driver, inference called again
\* The driver of Spec, with make_inferences also called on its own between
\* observations (up to MaxCalls times): the knowledge it runs on comes from
\* true counts only.
NextInfer ==
    \/ \E cell \in Board : Observe(cell)
    \/ MakeInferences

SpecInfer == Init /\ [][NextInfer]_vars

\* ------------------------------------------ every public call, any order
\* A caller that uses the whole public surface of MinesweeperAI: mark_safe
\* and mark_mine with any cell of the board, add_knowledge with any cell and
\* count, and the two queries; MaxCalls calls in all.
MarkSafe(cell) ==
    /\ calls < MaxCalls
    /\ Store(mark_safe(Self, cell))
    /\ op' = [name |-> "mark_safe", cell |-> cell, count |-> 0]
    /\ ret' = None
    /\ calls' = calls + 1
    /\ UNCHANGED layout

MarkMine(cell) ==
    /\ calls < MaxCalls
    /\ Store(mark_mine(Self, cell))
    /\ op' = [name |-> "mark_mine", cell |-> cell, count |-> 0]
    /\ ret' = None
    /\ calls' = calls + 1
    /\ UNCHANGED layout

CallMakeSafeMove ==
    /\ calls < MaxCalls
    /\ \/ /\ safe_moves(Self) # {}
          /\ ret' \in safe_moves(Self)
       \/ /\ safe_moves(Self) = {}
          /\ ret' = None
    /\ op' = [name |-> "make_safe_move", cell |-> None, count |-> 0]
    /\ calls' = calls + 1
    /\ UNCHANGED <<layout, moves_made, safes, mines, knowledge>>

CallMakeRandomMove ==
    /\ calls < MaxCalls
    /\ ret' = make_random_move(Self)
    /\ op' = [name |-> "make_random_move", cell |-> None, count |-> 0]
    /\ calls' = calls + 1
    /\ UNCHANGED <<layout, moves_made, safes, mines, knowledge>>

NextCalls ==
    \/ \E cell \in Board : \E count \in CountsFor(cell) : AddKnowledge(cell, count)
    \/ \E cell \in Board : MarkSafe(cell)
    \/ \E cell \in Board : MarkMine(cell)
    \/ CallMakeSafeMove
    \/ CallMakeRandomMove

SpecCalls == InitAPI /\ [][NextCalls]_vars

\* ---------------------------------------------------------------- claims
Sentences == { knowledge[i] : i \in 1 .. Len(knowledge) }

\* every cell that is not a mine has been observed: the driver is done
AllObserved == moves_made = Board \ layout

\* C1: with a truthful driver no cell of safes is a mine of the layout, and
\* make_safe_move never returns a mine.
C1_SafesAreNotMines ==
    /\ safes \cap layout = {}
    /\ op.name = "make_safe_move" => ret \notin layout

\* C2: with a truthful driver safes and mines have no cell in common.
C2_SafesMinesDisjoint == safes \cap mines = {}

\* C3: with a truthful driver every cell of mines is a mine of the layout.
C3_MinesAreMines == mines \subseteq layout

\* C4: when knowledge holds sentences A and B with B.cells a proper subset
\* of A.cells (B not empty, both counts within 0 .. |cells|, and the
\* difference A.count - B.count within what A.cells \ B.cells can hold, as
\* in {a,b,c,d}=3 and {a,b}=1), one call of make_inferences leaves the
\* sentence A.cells \ B.cells = A.count - B.count in knowledge.
WellFormed(s) == 0 <= s.count /\ s.count <= Cardinality(s.cells)

C4_SubsetElimination ==
    [][op'.name = "make_inferences" =>
        \A A \in Sentences : \A B \in Sentences :
            ( /\ B.cells # {}
              /\ B.cells \subseteq A.cells
              /\ B.cells # A.cells
              /\ WellFormed(A)
              /\ WellFormed(B)
              /\ WellFormed(Sentence(A.cells \ B.cells, A.count - B.count)) )
            => InList(Sentence(A.cells \ B.cells, A.count - B.count), knowledge')]_vars

\* C5: every sentence of knowledge has 0 <= count <= |cells| (the driver's
\* counts are the board's, so within 0 .. number of neighbours).
C5_CountWithinCells == \A s \in Sentences : WellFormed(s)

\* C6: once the driver has observed every cell that is not a mine, every
\* cell of a sentence with count 0 is in safes and every cell of a sentence
\* with count = |cells| > 0 is in mines.
C6_DegenerateResolved ==
    AllObserved =>
        \A s \in Sentences :
            /\ s.count = 0 => s.cells \subseteq safes
            /\ (s.count = Cardinality(s.cells) /\ s.count > 0) => s.cells \subseteq mines

\* C7: when add_knowledge returns, no sentence of knowledge contains a cell
\* that is in safes or in mines.
C7_NormalizationClosure ==
    op.name = "add_knowledge" =>
        \A s \in Sentences : s.cells \cap (safes \cup mines) = {}

\* an add_knowledge call has returned with a sentence left that still has
\* cells, after inference added a sentence and cells are known as mines
C7_Witness ==
    /\ op.name = "add_knowledge"
    /\ Len(knowledge) >= 3
    /\ mines # {}
    /\ safes # {}
    /\ \E s \in Sentences : s.cells # {}

\* C8: make_random_move returns a cell of the whole board that is in
\* neither moves_made nor mines whenever there is one, and None only when
\* there is none.
C8_RandomMoveComplete ==
    op.name = "make_random_move" =>
        LET free == Board \ (moves_made \cup mines)
        IN  /\ free # {} => ret \in free
            /\ ret = None => free = {}

\* C9: make_safe_move returns a cell of safes - moves_made - mines whenever
\* that set is not empty, and None exactly when it is empty.
C9_SafeMoveSelection ==
    op.name = "make_safe_move" =>
        LET candidates == { c \in safes : c \notin moves_made /\ c \notin mines }
        IN  /\ candidates # {} => ret \in candidates
            /\ ret = None <=> candidates = {}

\* make_safe_move was called while a cell of safes that was never observed
\* is also in mines, and while safes holds a move already made: both
\* subtractions leave a cell out
C9_Witness ==
    /\ op.name = "make_safe_move"
    /\ (safes \cap mines) \ moves_made # {}
    /\ safes \cap moves_made # {}

\* C10: add_knowledge(cell, count) with count < 0 or count greater than the
\* number of neighbours of cell leaves safes, mines and knowledge unchanged.
C10_InvalidCountRejected ==
    [][( /\ op'.name = "add_knowledge"
         /\ \/ op'.count < 0
            \/ op'.count > Cardinality(get_neighbours(op'.cell)) )
        => UNCHANGED <<safes, mines, knowledge>>]_vars


\* the cells within one row and one column of cell on a height x width
\* board, cell itself left out: what a neighbour is, said without the code
Abs(n) == IF n < 0 THEN -n ELSE n

Adjacent(height, width, cell) ==
    { p \in (0 .. height - 1) \X (0 .. width - 1) :
        /\ Abs(p[1] - cell[1]) <= 1
        /\ Abs(p[2] - cell[2]) <= 1
        /\ p # cell }

\* C11: when add_knowledge(cell, 0) returns, every neighbour of cell on the
\* board is in safes, whatever calls came before.
C11_ZeroCountNeighboursSafe ==
    (op.name = "add_knowledge" /\ op.count = 0) =>
        Adjacent(Height, Width, op.cell) \subseteq safes

\* add_knowledge(cell, 0) returned after earlier calls had put a neighbour
\* of cell in mines
C11_Witness ==
    /\ op.name = "add_knowledge"
    /\ op.count = 0
    /\ calls >= 2
    /\ Adjacent(Height, Width, op.cell) \cap mines # {}

\* C12: when add_knowledge(cell, n) returns, n > 0 being the number of
\* neighbours of cell, every neighbour of cell is in mines.
C12_FullCountNeighboursMines ==
    ( /\ op.name = "add_knowledge"
      /\ op.count = Cardinality(Adjacent(Height, Width, op.cell))
      /\ op.count > 0 )
    => Adjacent(Height, Width, op.cell) \subseteq mines

\* add_knowledge(cell, n) returned after earlier calls had put a neighbour
\* of cell in safes
C12_Witness ==
    /\ op.name = "add_knowledge"
    /\ op.count = Cardinality(Adjacent(Height, Width, op.cell))
    /\ op.count > 0
    /\ calls >= 2
    /\ Adjacent(Height, Width, op.cell) \cap safes # {}


\* C13: across every step of mark_safe, mark_mine, add_knowledge,
\* make_safe_move and make_random_move calls, safes, mines and moves_made
\* after the step contain what they held before it.
C13_Monotonic ==
    [][ /\ safes \subseteq safes'
        /\ mines \subseteq mines'
        /\ moves_made \subseteq moves_made' ]_vars

\* mark_safe(c) returned for a cell c that an earlier call put in mines,
\* with a move already made
C13_Witness ==
    /\ op.name = "mark_safe"
    /\ op.cell \in mines
    /\ moves_made # {}

\* C14: a make_safe_move call leaves moves_made, safes, mines and knowledge
\* as they were, whether it returns a cell or None.
C14_SafeMoveReadOnly ==
    [][op'.name = "make_safe_move" =>
        UNCHANGED <<moves_made, safes, mines, knowledge>>]_vars

\* make_safe_move returned a cell, and the cell is still in safes
C14_Witness ==
    /\ op.name = "make_safe_move"
    /\ ret # None
    /\ ret \in safes
    /\ knowledge # <<>>

\* C15: for any cell c, mark_safe(c) twice leaves the same safes, mines,
\* moves_made and knowledge as mark_safe(c) once, and likewise mark_mine(c).
C15_MarkIdempotent ==
    \A c \in Board :
        /\ mark_safe(mark_safe(Self, c), c) = mark_safe(Self, c)
        /\ mark_mine(mark_mine(Self, c), c) = mark_mine(Self, c)

\* mark_mine(c) has returned after earlier calls, and knowledge holds a
\* sentence that still has cells for a second mark to act on
C15_Witness ==
    /\ op.name = "mark_mine"
    /\ calls >= 2
    /\ \E s \in Sentences : s.cells # {}

C17_EveryPairInferred ==
    [][op'.name = "make_inferences" =>
        \A i \in 1 .. Len(knowledge) : \A j \in 1 .. Len(knowledge) :
            ( /\ i # j
              /\ knowledge[i] # knowledge[j]
              /\ knowledge[i].count >= knowledge[j].count
              /\ knowledge[i].cells \cap knowledge[j].cells # {} )
            => \E k \in 1 .. Len(knowledge') :
                    knowledge'[k].cells = knowledge[i].cells \cap knowledge[j].cells]_vars

\* C18: when make_inferences derives a sentence over the cells of a
\* sentence already in knowledge that has a strictly larger count, the
\* sentence with the larger count is no longer in knowledge after the call.
C18_TighterReplacesLooser ==
    [][op'.name = "make_inferences" =>
        \A k \in Len(knowledge) + 1 .. Len(knowledge') :
            \A i \in 1 .. Len(knowledge) :
                ( /\ knowledge[i].cells = knowledge'[k].cells
                  /\ knowledge[i].count > knowledge'[k].count )
                => ~InList(knowledge[i], knowledge')]_vars

\* C19: in every add_knowledge call, right after the clean-up that follows
\* make_inferences, knowledge holds no sentence with an empty cell set.
C19_NoEmptySentenceAfterCleanUp ==
    [][op'.name = "add_knowledge" =>
        LET cleaned == add_knowledge_cleaned(Self, op'.cell, op'.count).knowledge
        IN  \A i \in 1 .. Len(cleaned) : cleaned[i].cells # {}]_vars


\* C20: after any sequence of add_knowledge, mark_safe and mark_mine calls
\* every move made is in safes, and right after add_knowledge(cell, count)
\* the cell is in both moves_made and safes.
C20_MovesMadeAreSafe ==
    /\ moves_made \subseteq safes
    /\ op.name = "add_knowledge" => (op.cell \in moves_made /\ op.cell \in safes)

\* add_knowledge returned for a cell that an earlier call had put in mines,
\* with another move made before it
C20_Witness ==
    /\ op.name = "add_knowledge"
    /\ op.cell \in mines
    /\ Cardinality(moves_made) >= 2

====
